---- MODULE Spec2Model ----
(***************************************************************************)
(* Model of the fake-messages plugin (src/src/index.ts): the record cache  *)
(* mirrored to one localStorage slot, the cache-update subscription list,  *)
(* and the sendFakeMessage compose flow with its suspension points.        *)
(*                                                                         *)
(* JavaScript strings are sequences of one-character strings.  A value     *)
(* that may be undefined is the one-element tuple Undef.  A stored object  *)
(* is read field by field, so a property holding undefined and a missing   *)
(* property are the same in-memory value; the JSON text is a different     *)
(* representation (a function over the keys that are present).             *)
(***************************************************************************)
EXTENDS Integers, Sequences, FiniteSets, TLC

(* ---------------------------- bounds ----------------------------------- *)
MaxSends == 1        \* sendFakeMessage calls begun in one run
MaxSubs == 1         \* length of the subscription list

(* ------------------------ program constants ---------------------------- *)
MinDigits == 17
MaxDigits == 19

(* ------------------------------ strings -------------------------------- *)
Undef == <<"undefined">>

Digits == {"0", "1", "2", "3", "4", "5", "6", "7", "8", "9"}

WhiteSpace == {" ", "\n"}

Rep(ch, n) == [i \in 1..n |-> ch]

\* the length is tested, the characters are not
isValidSnowflake_LengthOnly(id) == Len(id) >= MinDigits /\ Len(id) <= MaxDigits

\* /^\d{17,19}$/.test(id)
isValidSnowflake(id) ==
    /\ Len(id) >= MinDigits
    /\ Len(id) <= MaxDigits
    /\ \A i \in 1..Len(id) : id[i] \in Digits

RECURSIVE trimStart(_)
trimStart(s) ==
    IF s # <<>> /\ Head(s) \in WhiteSpace THEN trimStart(Tail(s)) ELSE s

RECURSIVE trimEnd(_)
trimEnd(s) ==
    IF s # <<>> /\ s[Len(s)] \in WhiteSpace
    THEN trimEnd(SubSeq(s, 1, Len(s) - 1)) ELSE s

\* String.prototype.trim
trim(s) == trimEnd(trimStart(s))

\* JavaScript truthiness of a value that is a string or undefined
Truthy(s) == s # Undef /\ s # <<>>

(* ------------------------------ inputs --------------------------------- *)
Target1 == Rep("1", 18)
From2 == Rep("2", 17)

TargetIds == {Target1, <<"4", "2">>, Rep("1", 19) \o <<"\n">>}

FromIds == {From2, Rep("2", 16) \o <<"a">>}

Contents == {<<>>, <<" ">>, <<"h", "i">>}

NoEmbed == [present |-> FALSE]

Embed(t, d, u) == [present |-> TRUE, title |-> t, description |-> d, imageUrl |-> u]

Embeds ==
    { NoEmbed,
      Embed(<<>>, <<>>, <<>>),
      Embed(<<" ">>, <<>>, <<>>),
      Embed(<<"t">>, Undef, <<"u">>) }

(* ------------------------ JSON and the slot ---------------------------- *)
RecordKeys == {"id", "targetUserId", "fromUserId", "content", "embed",
               "timestamp", "channelId"}

EmbedKeys == {"title", "description", "imageUrl"}

\* a property holding the empty string is omitted as well
JSONstringifyEmbed_DropsFalsy(e) ==
    [k \in {x \in EmbedKeys : e[x] # Undef /\ e[x] # <<>>} |-> e[k]]

\* JSON.stringify of an object: a property whose value is undefined is
\* omitted.  In a CachedFakeMessage only embed and the fields of embed are
\* optional (interface, lines 35-47).
JSONstringifyEmbed(e) ==
    [k \in {x \in EmbedKeys : e[x] # Undef} |-> e[k]]

JSONstringifyRecord(r) ==
    [k \in {x \in RecordKeys : x = "embed" => r.embed.present}
       |-> IF k = "embed" THEN JSONstringifyEmbed(r.embed) ELSE r[k]]

\* JSON.stringify(this.cache)
JSONstringify(c) ==
    IF c.isArray
    THEN [kind |-> "json", isArray |-> TRUE,
          items |-> [i \in 1..Len(c.items) |-> JSONstringifyRecord(c.items[i])]]
    ELSE [kind |-> "json", isArray |-> FALSE, items |-> <<>>]

\* reading a property of a parsed object
Get(o, k) == IF k \in DOMAIN o THEN o[k] ELSE Undef

JSONparseEmbed(o) ==
    [present |-> TRUE, title |-> Get(o, "title"),
     description |-> Get(o, "description"), imageUrl |-> Get(o, "imageUrl")]

JSONparseRecord(o) ==
    [id |-> o["id"], targetUserId |-> o["targetUserId"],
     fromUserId |-> o["fromUserId"], content |-> o["content"],
     embed |-> IF "embed" \in DOMAIN o THEN JSONparseEmbed(o["embed"]) ELSE NoEmbed,
     timestamp |-> o["timestamp"], channelId |-> o["channelId"]]

\* JSON.parse of a text that parses
JSONparse(t) ==
    [isArray |-> t.isArray,
     items |-> [i \in 1..Len(t.items) |-> JSONparseRecord(t.items[i])]]

EmptyCache == [isArray |-> TRUE, items |-> <<>>]

\* localStorage contents: no item, text that does not parse, or JSON text
SlotAbsent == [kind |-> "absent", isArray |-> FALSE, items |-> <<>>]
SlotMalformed == [kind |-> "malformed", isArray |-> FALSE, items |-> <<>>]
SlotNonArray == [kind |-> "json", isArray |-> FALSE, items |-> <<>>]

OldRecord ==
    [id |-> <<-1, 0>>, targetUserId |-> Target1, fromUserId |-> From2,
     content |-> <<"o">>, embed |-> NoEmbed, timestamp |-> -1,
     channelId |-> "chan-1"]

InitialSlots ==
    { SlotAbsent, SlotMalformed, SlotNonArray,
      JSONstringify([isArray |-> TRUE, items |-> <<OldRecord>>]) }

(* ------------------------------- state --------------------------------- *)
VARIABLES
    cache,                 \* this.cache: [isArray, items]
    slot,                  \* localStorage item 'fake-messages-cache'
    cacheUpdateCallbacks,  \* this.cacheUpdateCallbacks
    calls,                 \* the sendFakeMessage calls in flight
    started,               \* sendFakeMessage calls begun so far
    ev,                    \* what the last operation did and met
    registrations,         \* the onCacheUpdate calls made: callback, and
                           \* whether the closure returned was called
    hooks                  \* the two injector hooks: none, pending, installed

vars == <<cache, slot, cacheUpdateCallbacks, calls, started, ev,
          registrations, hooks>>

\* the registrations are followed under SpecSubs and the hooks under
\* SpecHooks; the steps of the other specifications leave both alone
aux == <<registrations, hooks>>

\* the slots of the calls in flight
Calls == {1, 2}

\* the callback functions a consumer registers
Callbacks == {1}

\* the values Date.now() returns and the suffixes Math.random() gives, line 180
Clock == {0}

Suffixes == {0}

IdleCall ==
    [pc |-> "idle", target |-> <<>>, from |-> <<>>, content |-> <<>>,
     embed |-> NoEmbed, usrMod |-> "none", chans |-> <<>>, nOpen |-> 0]

\* the event an operation leaves behind: which operation ran (op), for which
\* call (c), where a send left the flow (exit), what it returned (result),
\* whether the storage access succeeded (ioOk), the callbacks invoked, the
\* toasts shown, the ids given (begin of a send), the channel map read, what
\* the host answered (usr, getUser, open, recvThrew), the receiveMessage
\* calls made, whether this.cache was assigned or pushed to (mutated), how
\* many records a clear removed (dropped) and how many other calls were in
\* flight when a send ended (overlap)
Event(op) ==
    [op |-> op, c |-> 0, exit |-> "none", result |-> "none", ioOk |-> TRUE,
     invoked |-> <<>>, threw |-> FALSE, toasts |-> <<>>, via |-> "none",
     target |-> <<>>, from |-> <<>>, chans |-> <<>>, existing |-> FALSE,
     usr |-> "none", getUser |-> "none", open |-> "none", recvThrew |-> FALSE,
     mutated |-> FALSE, dropped |-> 0, recv |-> <<>>, overlap |-> 0]

(* --------------------------- subscriptions ----------------------------- *)
\* the callback of SettingsPanel (lines 342-344) calls getCachedMessages,
\* whose spread [...this.cache] throws when this.cache is not iterable
CallbackThrows(c) == ~c.isArray

\* notifyCacheUpdate, lines 96-98: forEach in list order; a throwing
\* callback ends the loop and the exception leaves notifyCacheUpdate
notifyCacheUpdate(cbs, c) ==
    IF cbs # <<>> /\ CallbackThrows(c)
    THEN [invoked |-> <<cbs[1]>>, threw |-> TRUE]
    ELSE [invoked |-> cbs, threw |-> FALSE]

\* Array.prototype.indexOf, 1-based, 0 when absent
RECURSIVE indexOf(_, _)
indexOf(seq, x) ==
    IF seq = <<>> THEN 0
    ELSE IF Head(seq) = x THEN 1
    ELSE IF indexOf(Tail(seq), x) = 0 THEN 0
    ELSE 1 + indexOf(Tail(seq), x)

\* splice(idx, 1)
splice1(seq, idx) == SubSeq(seq, 1, idx - 1) \o SubSeq(seq, idx + 1, Len(seq))

(* ------------------------------ cache ---------------------------------- *)
\* loadCache, lines 64-72: the value of this.cache after the try block
loadedCache(c, s, readOk) ==
    IF readOk /\ s.kind = "json" THEN JSONparse(s) ELSE c

\* saveCache, lines 77-84
saveCache(c, s, cbs, writeOk) ==
    IF writeOk
    THEN [slot |-> JSONstringify(c), invoked |-> notifyCacheUpdate(cbs, c).invoked]
    ELSE [slot |-> s, invoked |-> <<>>]

\* getCachedMessages, lines 308-310
getCachedMessages == cache.items

(* ------------------------------ Init ----------------------------------- *)
Recipient(id) == [type |-> "string", value |-> id, id |-> Undef]

UserRecord(id) == [type |-> "object", value |-> Undef, id |-> id]

Channel(id, has, rs) == [id |-> id, hasRecipients |-> has, recipients |-> rs]

Other3 == Rep("3", 18)

ChannelMaps ==
    { <<Channel("chan-1", TRUE, <<Recipient(Target1)>>),
        Channel("chan-4", TRUE, <<Recipient(Target1), Recipient(Other3)>>)>>,
      <<Channel("chan-0", FALSE, <<>>),
        Channel("chan-1", TRUE, <<UserRecord(Other3), UserRecord(Target1)>>)>>,
      <<Channel("chan-3", TRUE, <<Recipient(Other3)>>)>> }

NoHooks == [before |-> "none", after |-> "none"]

Init ==
    /\ cache = EmptyCache
    /\ slot \in InitialSlots
    /\ cacheUpdateCallbacks = <<>>
    /\ calls = [c \in Calls |-> IdleCall]
    /\ started = 0
    /\ ev = Event("init")
    /\ registrations = <<>>
    /\ hooks = NoHooks

(* ---------------------- lifecycle and cache ops ------------------------ *)
\* start(), lines 54-58: loadCache, then the hooks are requested
Start(readOk) ==
    LET c2 == loadedCache(cache, slot, readOk)
        n == notifyCacheUpdate(cacheUpdateCallbacks, c2)
    IN /\ cache' = c2
       /\ ev' = [Event("load") EXCEPT !.invoked = n.invoked, !.threw = n.threw,
                                      !.ioOk = readOk, !.mutated = TRUE]
       /\ UNCHANGED <<slot, cacheUpdateCallbacks, calls, started, aux>>

\* stop flushes the cache and releases it
Stop_Releases(writeOk) ==
    LET sv == saveCache(cache, slot, cacheUpdateCallbacks, writeOk)
    IN /\ slot' = sv.slot
       /\ cache' = EmptyCache
       /\ ev' = [Event("stop") EXCEPT !.invoked = sv.invoked, !.ioOk = writeOk]
       /\ UNCHANGED <<cacheUpdateCallbacks, calls, started, aux>>

\* stop(), lines 60-62
Stop(writeOk) ==
    LET sv == saveCache(cache, slot, cacheUpdateCallbacks, writeOk)
    IN /\ slot' = sv.slot
       /\ ev' = [Event("stop") EXCEPT !.invoked = sv.invoked, !.ioOk = writeOk]
       /\ UNCHANGED <<cache, cacheUpdateCallbacks, calls, started, aux>>

\* the clear is undone when the write fails
clearCache_RollsBack(writeOk) ==
    LET sv == saveCache(EmptyCache, slot, cacheUpdateCallbacks, writeOk)
    IN /\ cache' = IF writeOk THEN EmptyCache ELSE cache
       /\ slot' = sv.slot
       /\ ev' = [Event("clear") EXCEPT !.invoked = sv.invoked, !.ioOk = writeOk,
                                       !.mutated = TRUE,
                                       !.dropped = Len(cache.items),
                                       !.toasts = <<"cache-cleared">>]
       /\ UNCHANGED <<cacheUpdateCallbacks, calls, started, aux>>

\* the records are kept in memory, only the slot is emptied
clearCache_SlotOnly(writeOk) ==
    /\ slot' = IF writeOk THEN JSONstringify(EmptyCache) ELSE slot
    /\ ev' = [Event("clear") EXCEPT !.ioOk = writeOk, !.mutated = TRUE,
                                    !.invoked = IF writeOk
                                                THEN cacheUpdateCallbacks
                                                ELSE <<>>,
                                    !.dropped = Len(cache.items),
                                    !.toasts = <<"cache-cleared">>]
    /\ UNCHANGED <<cache, cacheUpdateCallbacks, calls, started, aux>>

\* clearCache, lines 312-320
clearCache(writeOk) ==
    LET sv == saveCache(EmptyCache, slot, cacheUpdateCallbacks, writeOk)
    IN /\ cache' = EmptyCache
       /\ slot' = sv.slot
       /\ ev' = [Event("clear") EXCEPT !.invoked = sv.invoked, !.ioOk = writeOk,
                                       !.mutated = TRUE,
                                       !.dropped = Len(cache.items),
                                       !.toasts = <<"cache-cleared">>]
       /\ UNCHANGED <<cacheUpdateCallbacks, calls, started, aux>>

\* onCacheUpdate, lines 87-89: push
onCacheUpdate(cb) ==
    /\ Len(cacheUpdateCallbacks) < MaxSubs
    /\ cacheUpdateCallbacks' = Append(cacheUpdateCallbacks, cb)
    /\ ev' = Event("subscribe")
    /\ UNCHANGED <<cache, slot, calls, started, aux>>

\* the closure returned by onCacheUpdate, lines 90-93; called for a
\* callback that is not in the list it changes nothing
unsubscribe(cb) ==
    /\ LET idx == indexOf(cacheUpdateCallbacks, cb)
       IN cacheUpdateCallbacks' =
            IF idx # 0 THEN splice1(cacheUpdateCallbacks, idx)
            ELSE cacheUpdateCallbacks
    /\ ev' = Event("unsubscribe")
    /\ UNCHANGED <<cache, slot, calls, started, aux>>

(* ------------------------- sendFakeMessage ----------------------------- *)
FailureToasts == {"invalid-id", "dm-failed", "send-failed"}

SuccessToasts == {"sent", "cache-cleared"}

\* user records are not normalised to their id
recipientId_StringsOnly(r) == IF r.type = "string" THEN r.value ELSE Undef

\* line 146: typeof r === 'string' ? r : r.id
recipientId(r) == IF r.type = "string" THEN r.value ELSE r.id

\* lines 143-149: does this channel list the target
listsTarget(ch, target) ==
    /\ ch.hasRecipients
    /\ \E i \in 1..Len(ch.recipients) : recipientId(ch.recipients[i]) = target

\* lines 142-154: index of the first channel that lists the target, 0 if none
RECURSIVE findDM(_, _)
findDM(chans, target) ==
    IF chans = <<>> THEN 0
    ELSE IF listsTarget(Head(chans), target) THEN 1
    ELSE IF findDM(Tail(chans), target) = 0 THEN 0
    ELSE 1 + findDM(Tail(chans), target)

\* lines 201-222: the embed list of the payload
embedsOf(embed, username) ==
    IF embed.present /\ (Truthy(embed.title) \/ Truthy(embed.description)
                            \/ Truthy(embed.imageUrl))
    THEN << [type |-> "rich", title |-> embed.title,
             description |-> embed.description, footer |-> username,
             hasImage |-> Truthy(embed.imageUrl)] >>
    ELSE <<>>

\* the inner catch rethrows into the outer catch
openFailureToasts_Rethrown == <<"dm-failed", "send-failed">>

\* lines 160-167: the toasts of the inner catch, which returns at once
openFailureToasts == <<"dm-failed">>

\* the push follows receiveMessage
pushedAt_AfterInject(exit) == exit = "ok"

\* lines 224-237: the push precedes receiveMessage, so the record is in the
\* cache on the exits "inject" (receiveMessage threw) and "ok"
pushedAt(exit) == exit \in {"inject", "ok"}

InFlight == Cardinality({c \in Calls : calls[c].pc # "idle"})

\* the record is placed first
push_Unshift(c, rec) == [c EXCEPT !.items = <<rec>> \o @]

\* this.cache.push(record), line 225
push(c, rec) == [c EXCEPT !.items = Append(@, rec)]

\* a send attempt that ends: the event it leaves and the call slot freed
EndSend(c, e) ==
    /\ calls' = [calls EXCEPT ![c] = IdleCall]
    /\ ev' = [e EXCEPT !.op = "send", !.c = c, !.overlap = InFlight - 1]

\* the outer catch logs and returns false without a toast
Caught_Silent(c, exit) ==
    /\ EndSend(c, [Event("send") EXCEPT !.exit = exit, !.result = "false"])
    /\ UNCHANGED <<cache, slot, cacheUpdateCallbacks, started, aux>>

\* lines 246-254: the outer catch
Caught(c, exit) ==
    /\ EndSend(c, [Event("send") EXCEPT !.exit = exit, !.result = "false",
                                        !.toasts = <<"send-failed">>])
    /\ UNCHANGED <<cache, slot, cacheUpdateCallbacks, started, aux>>

\* lines 106-116: the validation gate, up to the first await
BeginSend(c, target, from, content, embed, via) ==
    /\ calls[c].pc = "idle"
    /\ started' = started + 1
    /\ IF ~isValidSnowflake(target) \/ ~isValidSnowflake(from)
       THEN /\ ev' = [Event("send") EXCEPT
                        !.c = c, !.exit = "validation", !.result = "false",
                        !.toasts = <<"invalid-id">>, !.via = via,
                        !.target = target, !.from = from,
                        !.overlap = InFlight]
            /\ calls' = calls
       ELSE /\ calls' = [calls EXCEPT ![c] =
                           [IdleCall EXCEPT !.pc = "awaitChannels",
                               !.target = target, !.from = from,
                               !.content = content, !.embed = embed]]
            /\ ev' = [Event("send-begin") EXCEPT !.c = c, !.via = via,
                         !.target = target, !.from = from]
    /\ UNCHANGED <<cache, slot, cacheUpdateCallbacks, aux>>

\* a direct call of the public method, lines 100-105
sendFakeMessage(c, target, from, content, embed) ==
    BeginSend(c, target, from, content, embed, "direct")

\* FakeMessageModal.validateForm, lines 605-632
validateForm(targetUserId, fromUserId, messageContent) ==
    /\ targetUserId # <<>> /\ isValidSnowflake(targetUserId)
    /\ fromUserId # <<>> /\ isValidSnowflake(fromUserId)
    /\ trim(messageContent) # <<>>

\* FakeMessageModal.handleSend, lines 634-654
handleSend(c, targetUserId, fromUserId, messageContent, showEmbed, form) ==
    IF ~validateForm(targetUserId, fromUserId, messageContent)
    THEN /\ calls[c].pc = "idle"
         /\ ev' = [Event("modal-rejected") EXCEPT !.c = c, !.via = "modal"]
         /\ UNCHANGED <<cache, slot, cacheUpdateCallbacks, calls,
                        started, aux>>
    ELSE BeginSend(c, targetUserId, fromUserId, messageContent,
                   IF showEmbed
                   THEN Embed(form.title, form.description, form.imageUrl)
                   ELSE NoEmbed,
                   "modal")

\* lines 118-124: the channels module settles
resolveChannels(c, out) ==
    /\ calls[c].pc = "awaitChannels"
    /\ IF out = "ok"
       THEN /\ calls' = [calls EXCEPT ![c].pc = "awaitMessage"]
            /\ ev' = [Event("send-step") EXCEPT !.c = c]
            /\ UNCHANGED <<cache, slot, cacheUpdateCallbacks,
                           started, aux>>
       ELSE Caught(c, "modules")

\* lines 126-132: the message module settles
resolveMessage(c, out) ==
    /\ calls[c].pc = "awaitMessage"
    /\ IF out = "ok"
       THEN /\ calls' = [calls EXCEPT ![c].pc = "awaitUser"]
            /\ ev' = [Event("send-step") EXCEPT !.c = c]
            /\ UNCHANGED <<cache, slot, cacheUpdateCallbacks,
                           started, aux>>
       ELSE Caught(c, "modules")

\* lines 171-245 (and the catch): from the user lookup to the return, for the
\* channel dmChannel; chanOk is false when openPrivateChannel resolved with
\* nothing
Deliver(c, k, existing, chanOk, chanId, open, g, t1, t2, rnd, writeOk, recvThrows) ==
    LET userFails == k.usrMod = "undefined" \/ (k.usrMod = "ok" /\ g = "throws")
        username == IF k.usrMod = "ok" /\ g = "user"
                    THEN "host-user" ELSE "Unknown User"
        messageId == <<t1, rnd>>
        fakeMessage == [id |-> messageId, channel_id |-> chanId,
                        content |-> k.content, author |-> username,
                        embeds |-> embedsOf(k.embed, username)]
        rec == [id |-> messageId, targetUserId |-> k.target,
                fromUserId |-> k.from, content |-> k.content,
                embed |-> k.embed, timestamp |-> t2, channelId |-> chanId]
        exit == IF userFails THEN "user"
                ELSE IF ~chanOk THEN "channel"
                ELSE IF ~cache.isArray THEN "push"
                ELSE IF recvThrows THEN "inject"
                ELSE "ok"
        pushed == pushedAt(exit)
        c2 == IF pushed THEN push(cache, rec) ELSE cache
        sv == IF pushed
              THEN saveCache(c2, slot, cacheUpdateCallbacks, writeOk)
              ELSE [slot |-> slot, invoked |-> <<>>]
    IN /\ cache' = c2
       /\ slot' = sv.slot
       /\ EndSend(c, [Event("send") EXCEPT
                        !.exit = exit,
                        !.result = IF exit = "ok" THEN "true" ELSE "false",
                        !.toasts = IF exit = "ok" THEN <<"sent">>
                                   ELSE <<"send-failed">>,
                        !.invoked = sv.invoked, !.mutated = pushed,
                        !.ioOk = ~pushed \/ writeOk, !.chans = k.chans,
                        !.existing = existing, !.usr = k.usrMod,
                        !.getUser = g, !.open = open,
                        !.recvThrew = (exit = "inject"),
                        !.recv = IF exit \in {"inject", "ok"}
                                 THEN <<[channelId |-> chanId,
                                         message |-> fakeMessage]>>
                                 ELSE <<>>])
       /\ UNCHANGED <<cacheUpdateCallbacks, started, aux>>

ModuleOutcomes == {"ok", "missing", "reject"}

UserModuleOutcomes == {"ok", "nofn", "undefined", "reject"}

GetUserOutcomes == {"user", "none", "throws"}

OpenOutcomes == {"channel", "nothing", "reject"}

\* lines 134-159: the user module settles, the existing channels are searched
\* and, when none lists the target, openPrivateChannel is called
resolveUser(c, out, chans, g, t1, t2, rnd, writeOk, recvThrows) ==
    /\ calls[c].pc = "awaitUser"
    /\ IF out = "reject"
       THEN Caught(c, "modules")
       ELSE LET k == [calls[c] EXCEPT !.usrMod = out, !.chans = chans]
                idx == findDM(chans, k.target)
            IN IF idx # 0
               THEN Deliver(c, k, TRUE, TRUE, chans[idx].id, "none", g, t1, t2,
                            rnd, writeOk, recvThrows)
               ELSE /\ calls' = [calls EXCEPT ![c] =
                                   [k EXCEPT !.pc = "awaitOpen",
                                             !.nOpen = @ + 1]]
                    /\ ev' = [Event("send-step") EXCEPT !.c = c, !.chans = chans]
                    /\ UNCHANGED <<cache, slot, cacheUpdateCallbacks,
                                   started, aux>>

\* lines 158-169: openPrivateChannel settles
openSettles(c, out, g, t1, t2, rnd, writeOk, recvThrows) ==
    /\ calls[c].pc = "awaitOpen"
    /\ IF out = "reject"
       THEN /\ EndSend(c, [Event("send") EXCEPT !.exit = "open",
                              !.result = "false", !.open = out,
                              !.chans = calls[c].chans,
                              !.usr = calls[c].usrMod,
                              !.toasts = openFailureToasts])
            /\ UNCHANGED <<cache, slot, cacheUpdateCallbacks,
                           started, aux>>
       ELSE Deliver(c, calls[c], FALSE, out = "channel", "chan-new", out, g,
                    t1, t2, rnd, writeOk, recvThrows)

(* ------------------------------- Next ---------------------------------- *)
\* the (content, embed) arguments of a direct call
SendArgs ==
    {<<<<" ">>, NoEmbed>>} \cup {<<<<"h", "i">>, e>> : e \in Embeds}

\* the arguments of the direct calls: every (content, embed) pair with valid
\* ids, every pair of ids with a non-blank and with a blank content
DirectCalls ==
    {<<Target1, From2, a[1], a[2]>> : a \in SendArgs}
    \cup {<<t, f, m, NoEmbed>> :
             t \in TargetIds, f \in FromIds, m \in {<<" ">>, <<"h", "i">>}}

\* the fields of the form are strings (constructor, lines 432-442)
ModalForms ==
    {e \in Embeds : e.present /\ Undef \notin {e.title, e.description, e.imageUrl}}

EmptyForm == Embed(<<>>, <<>>, <<>>)

\* the states of the modal form when Send is pressed: every pair of ids,
\* every content, the embed section hidden or shown with every form
ModalStates ==
    {<<t, f, <<"h", "i">>, FALSE, EmptyForm>> : t \in TargetIds, f \in FromIds}
    \cup {<<Target1, From2, m, FALSE, EmptyForm>> : m \in Contents}
    \cup {<<Target1, From2, <<"h", "i">>, TRUE, e>> : e \in ModalForms}

\* a call begins while the run may still begin one; under Spec the calls
\* follow one another (the caller awaits each, as handleSend does), so the
\* new call takes the first slot
CanBegin(c) ==
    /\ started < MaxSends
    /\ InFlight = 0
    /\ calls[c].pc = "idle"
    /\ \A d \in Calls : d < c => calls[d].pc # "idle"

\* the outcome of a host call that the flow does not reach is not a choice:
\* getUser is called only on a user module that has it, localStorage.setItem
\* only after the push, receiveMessage only after saveCache
Reached(usrMod, chanOk, g, writeOk, recvThrows) ==
    LET userFails == usrMod = "undefined" \/ (usrMod = "ok" /\ g = "throws")
        pushes == ~userFails /\ chanOk /\ cache.isArray
    IN /\ usrMod # "ok" => g = "none"
       /\ ~pushes => writeOk /\ ~recvThrows

Next ==
    \/ \E readOk \in BOOLEAN : Start(readOk)
    \/ \E writeOk \in BOOLEAN : Stop(writeOk)
    \/ \E writeOk \in BOOLEAN : clearCache(writeOk)
    \/ \E cb \in Callbacks : onCacheUpdate(cb)
    \/ \E cb \in Callbacks : unsubscribe(cb)
    \/ \E c \in Calls :
          /\ CanBegin(c)
          /\ \E a \in DirectCalls :
                sendFakeMessage(c, a[1], a[2], a[3], a[4])
    \/ \E c \in Calls :
          /\ CanBegin(c)
          /\ \E a \in ModalStates :
                handleSend(c, a[1], a[2], a[3], a[4], a[5])
    \/ \E c \in Calls, out \in ModuleOutcomes : resolveChannels(c, out)
    \/ \E c \in Calls, out \in ModuleOutcomes : resolveMessage(c, out)
    \/ \E c \in Calls, out \in UserModuleOutcomes, chans \in ChannelMaps,
          g \in GetUserOutcomes, writeOk \in BOOLEAN, recvThrows \in BOOLEAN :
            /\ Reached(out, TRUE, g, writeOk, recvThrows)
            /\ \E t1 \in Clock, t2 \in Clock, rnd \in Suffixes :
                 t1 <= t2 /\
                 resolveUser(c, out, chans, g, t1, t2, rnd, writeOk, recvThrows)
    \/ \E c \in Calls, out \in OpenOutcomes, g \in GetUserOutcomes,
          writeOk \in BOOLEAN, recvThrows \in BOOLEAN :
            /\ Reached(calls[c].usrMod, out = "channel", g, writeOk, recvThrows)
            /\ \E t1 \in Clock, t2 \in Clock, rnd \in Suffixes :
                 t1 <= t2 /\
                 openSettles(c, out, g, t1, t2, rnd, writeOk, recvThrows)

Spec == Init /\ [][Next]_vars

TypeOK ==
    /\ cache.isArray \in BOOLEAN
    /\ Len(cacheUpdateCallbacks) <= MaxSubs
    /\ started \in 0..MaxSends

(* --------------- SpecSubs: registrations and closures ------------------ *)
\* the registrations a run makes under SpecSubs (one more than the list of
\* Spec holds, so that a callback can be registered twice)
MaxRegistrations == MaxSubs + 1

\* the callbacks of SpecSubs: 1 is the SettingsPanel callback (lines 342-344),
\* 2 is a consumer that calls the closure it got from onCacheUpdate when it
\* is invoked (it listens once)
SubsCallbacks == {1, 2}

CallsItsClosure(cb) == cb = 2

\* notifyCacheUpdate, lines 96-98, with callbacks that may change the list:
\* forEach visits the indices below the length it started with that the
\* array still has; a closure called by a callback splices the array under
\* the loop (lines 91-92); a callback that throws ends the loop
RECURSIVE forEach(_, _, _, _, _)
forEach(list, k, len, invoked, c) ==
    IF k > len \/ k > Len(list)
    THEN [list |-> list, invoked |-> invoked, threw |-> FALSE]
    ELSE LET cb == list[k]
         IN IF CallsItsClosure(cb)
            THEN forEach(splice1(list, indexOf(list, cb)), k + 1, len,
                         Append(invoked, cb), c)
            ELSE IF CallbackThrows(c)
            THEN [list |-> list, invoked |-> Append(invoked, cb), threw |-> TRUE]
            ELSE forEach(list, k + 1, len, Append(invoked, cb), c)

\* the registrations after the callbacks in invoked ran: a consumer that
\* calls its closure holds the closure of its first registration
closedBy(regs, invoked) ==
    [r \in DOMAIN regs |->
       IF /\ CallsItsClosure(regs[r].cb)
          /\ \E i \in 1..Len(invoked) : invoked[i] = regs[r].cb
          /\ \A q \in 1..(r - 1) : regs[q].cb # regs[r].cb
       THEN [regs[r] EXCEPT !.closed = TRUE]
       ELSE regs[r]]

\* onCacheUpdate, lines 87-94: the registration is remembered with its closure
register(cb) ==
    /\ Len(registrations) < MaxRegistrations
    /\ cacheUpdateCallbacks' = Append(cacheUpdateCallbacks, cb)
    /\ registrations' = Append(registrations, [cb |-> cb, closed |-> FALSE])
    /\ ev' = Event("subscribe")
    /\ UNCHANGED <<cache, slot, calls, started, hooks>>

\* the closure returned for registration r is called, lines 90-93
unsubscribeOf(r) ==
    /\ r \in DOMAIN registrations
    /\ LET idx == indexOf(cacheUpdateCallbacks, registrations[r].cb)
       IN cacheUpdateCallbacks' =
            IF idx # 0 THEN splice1(cacheUpdateCallbacks, idx)
            ELSE cacheUpdateCallbacks
    /\ registrations' = [registrations EXCEPT ![r].closed = TRUE]
    /\ ev' = Event("unsubscribe")
    /\ UNCHANGED <<cache, slot, calls, started, hooks>>

\* clearCache, lines 312-320, with saveCache (lines 77-84) running the loop
clearCacheNotifying(writeOk) ==
    LET fe == IF writeOk
              THEN forEach(cacheUpdateCallbacks, 1, Len(cacheUpdateCallbacks),
                           <<>>, EmptyCache)
              ELSE [list |-> cacheUpdateCallbacks, invoked |-> <<>>,
                    threw |-> FALSE]
    IN /\ cache' = EmptyCache
       /\ slot' = IF writeOk THEN JSONstringify(EmptyCache) ELSE slot
       /\ cacheUpdateCallbacks' = fe.list
       /\ registrations' = closedBy(registrations, fe.invoked)
       /\ ev' = [Event("clear") EXCEPT !.invoked = fe.invoked, !.ioOk = writeOk,
                                       !.mutated = TRUE,
                                       !.dropped = Len(cache.items),
                                       !.toasts = <<"cache-cleared">>]
       /\ UNCHANGED <<calls, started, hooks>>

\* start(), lines 54-58, with loadCache (lines 64-75) running the loop
StartNotifying(readOk) ==
    LET c2 == loadedCache(cache, slot, readOk)
        fe == forEach(cacheUpdateCallbacks, 1, Len(cacheUpdateCallbacks),
                      <<>>, c2)
    IN /\ cache' = c2
       /\ cacheUpdateCallbacks' = fe.list
       /\ registrations' = closedBy(registrations, fe.invoked)
       /\ ev' = [Event("load") EXCEPT !.invoked = fe.invoked, !.threw = fe.threw,
                                      !.ioOk = readOk, !.mutated = TRUE]
       /\ UNCHANGED <<slot, calls, started, hooks>>

NextSubs ==
    \/ \E cb \in SubsCallbacks : register(cb)
    \/ \E r \in 1..MaxRegistrations : unsubscribeOf(r)
    \/ \E writeOk \in BOOLEAN : clearCacheNotifying(writeOk)
    \/ \E readOk \in BOOLEAN : StartNotifying(readOk)

SpecSubs == Init /\ [][NextSubs]_vars

(* ------------- SpecCaller: a caller edits what it was given ------------- *)
\* [...this.cache], line 309: the array is new, its elements are the record
\* objects of this.cache themselves; element i of the copy refers to record
\* object i of the cache
snapshotOf(c) == [i \in 1..Len(c.items) |-> [ref |-> i]]

\* what a caller writes into a field
CallerTexts == {<<"x">>}

\* the caller pushes to or pops from the array it was given
callerChangesArray ==
    /\ cache.isArray
    /\ ev' = Event("caller-array")
    /\ UNCHANGED <<cache, slot, cacheUpdateCallbacks, calls, started, aux>>

\* the caller assigns the content of element i of the array it was given
callerWritesRecord(i, v) ==
    /\ cache.isArray
    /\ i \in DOMAIN snapshotOf(cache)
    /\ cache' = [cache EXCEPT !.items[snapshotOf(cache)[i].ref].content = v]
    /\ ev' = Event("caller-record")
    /\ UNCHANGED <<slot, cacheUpdateCallbacks, calls, started, aux>>

\* the caller assigns the title of the embed of element i (the embed object
\* is the one the sender passed in, lines 225-233, or the one loadCache parsed)
callerWritesEmbed(i, v) ==
    /\ cache.isArray
    /\ i \in DOMAIN snapshotOf(cache)
    /\ cache.items[snapshotOf(cache)[i].ref].embed.present
    /\ cache' = [cache EXCEPT
                   !.items[snapshotOf(cache)[i].ref].embed.title = v]
    /\ ev' = Event("caller-embed")
    /\ UNCHANGED <<slot, cacheUpdateCallbacks, calls, started, aux>>

NextCaller ==
    \/ Next
    \/ callerChangesArray
    \/ \E i \in 1..(MaxSends + 1), v \in CallerTexts : callerWritesRecord(i, v)
    \/ \E i \in 1..(MaxSends + 1), v \in CallerTexts : callerWritesEmbed(i, v)

SpecCaller == Init /\ [][NextCaller]_vars

(* ---------------- SpecOverlap: sends that overlap ----------------------- *)
\* a second call begins while the first is suspended, so a run begins one
\* call more than under Spec
MaxOverlapped == MaxSends + 1

\* the arguments of the overlapping calls: valid ids, two contents
OverlapCalls ==
    {a \in DirectCalls : a[1] = Target1 /\ a[2] = From2 /\ ~a[4].present}

\* two suffixes, so that ids can differ and can collide
OverlapSuffixes == {0, 1}

\* a call begins whenever a slot is free, whatever the other slot does
CanBeginOverlapped(c) ==
    /\ started < MaxOverlapped
    /\ calls[c].pc = "idle"
    /\ \A d \in Calls : d < c => calls[d].pc # "idle"

\* under SpecOverlap the host modules resolve or reject, getUser answers and
\* receiveMessage does not throw; the storage write may fail
NextOverlap ==
    \/ \E readOk \in BOOLEAN : Start(readOk)
    \/ \E writeOk \in BOOLEAN : Stop(writeOk)
    \/ \E writeOk \in BOOLEAN : clearCache(writeOk)
    \/ \E c \in Calls :
          /\ CanBeginOverlapped(c)
          /\ \E a \in OverlapCalls :
                sendFakeMessage(c, a[1], a[2], a[3], a[4])
    \/ \E c \in Calls, out \in {"ok", "reject"} : resolveChannels(c, out)
    \/ \E c \in Calls, out \in {"ok", "reject"} : resolveMessage(c, out)
    \/ \E c \in Calls, out \in {"ok", "reject"}, chans \in ChannelMaps,
          writeOk \in BOOLEAN :
            /\ Reached(out, TRUE, "user", writeOk, FALSE)
            /\ \E t1 \in Clock, t2 \in Clock, rnd \in OverlapSuffixes :
                 t1 <= t2 /\
                 resolveUser(c, out, chans, "user", t1, t2, rnd, writeOk, FALSE)
    \/ \E c \in Calls, out \in OpenOutcomes, writeOk \in BOOLEAN :
            /\ Reached(calls[c].usrMod, out = "channel", "user", writeOk, FALSE)
            /\ \E t1 \in Clock, t2 \in Clock, rnd \in OverlapSuffixes :
                 t1 <= t2 /\
                 openSettles(c, out, "user", t1, t2, rnd, writeOk, FALSE)

SpecOverlap == Init /\ [][NextOverlap]_vars

(* ------------------- SpecHooks: the injector hooks ---------------------- *)
HookNames == {"before", "after"}

\* injectMessageSending and patchMessageRenderer (lines 262-306) each wait
\* for a host module; a hook already requested or installed is left as it is
requested(h) ==
    [n \in HookNames |-> IF h[n] = "none" THEN "pending" ELSE h[n]]

\* start(), lines 54-58: loadCache, then the two hooks are requested, unless
\* loadCache threw
StartInstalling(readOk) ==
    LET c2 == loadedCache(cache, slot, readOk)
        n == notifyCacheUpdate(cacheUpdateCallbacks, c2)
    IN /\ cache' = c2
       /\ hooks' = IF n.threw THEN hooks ELSE requested(hooks)
       /\ ev' = [Event("load") EXCEPT !.invoked = n.invoked, !.threw = n.threw,
                                      !.ioOk = readOk, !.mutated = TRUE]
       /\ UNCHANGED <<slot, cacheUpdateCallbacks, calls, started, registrations>>

\* lines 263-282 and 286-305: the promise of waitForModule settles; the hook
\* is injected when the module has the function, nothing handles a rejection
moduleSettles(n, out) ==
    /\ hooks[n] = "pending"
    /\ hooks' = [hooks EXCEPT ![n] = IF out = "ok" THEN "installed" ELSE "none"]
    /\ ev' = [Event("hook-module") EXCEPT !.threw = (out = "reject")]
    /\ UNCHANGED <<cache, slot, cacheUpdateCallbacks, calls, started,
                   registrations>>

\* the channels the host sends a real message to
HostChannels == {"chan-1", "chan-9"}

\* lines 270-279: the before hook of sendMessage; this.cache.find throws when
\* this.cache is not an array
beforeSend(channelId) ==
    /\ hooks["before"] = "installed"
    /\ ev' = [Event("hook-before") EXCEPT
                !.threw = ~cache.isArray,
                !.result = IF cache.isArray THEN "unchanged" ELSE "none",
                !.existing = \E i \in DOMAIN cache.items :
                                cache.items[i].channelId = channelId]
    /\ UNCHANGED <<cache, slot, cacheUpdateCallbacks, calls, started, aux>>

\* lines 293-302: the after hook of Message; this.cache.some is reached when
\* props.message is set
afterRender(hasMessage, id) ==
    /\ hooks["after"] = "installed"
    /\ ev' = [Event("hook-after") EXCEPT
                !.threw = hasMessage /\ ~cache.isArray,
                !.result = IF hasMessage /\ ~cache.isArray
                           THEN "none" ELSE "unchanged",
                !.existing = /\ hasMessage
                             /\ \E i \in DOMAIN cache.items :
                                  cache.items[i].id = id]
    /\ UNCHANGED <<cache, slot, cacheUpdateCallbacks, calls, started, aux>>

NextHooks ==
    \/ \E readOk \in BOOLEAN : StartInstalling(readOk)
    \/ \E writeOk \in BOOLEAN : Stop(writeOk)
    \/ \E writeOk \in BOOLEAN : clearCache(writeOk)
    \/ \E n \in HookNames, out \in ModuleOutcomes : moduleSettles(n, out)
    \/ \E channelId \in HostChannels : beforeSend(channelId)
    \/ \E hasMessage \in BOOLEAN, id \in {OldRecord.id, <<0, 0>>} :
          afterRender(hasMessage, id)

SpecHooks == Init /\ [][NextHooks]_vars

(* ============================ claims =================================== *)
\* what the claims say, stated without the operators of the model
MatchesSnowflake(id) ==
    /\ Len(id) \in {17, 18, 19}
    /\ {id[i] : i \in 1..Len(id)} \subseteq Digits

Blank(str) == str = Undef \/ \A i \in 1..Len(str) : str[i] \in WhiteSpace

Lists(ch, target) ==
    /\ ch.hasRecipients
    /\ \E i \in 1..Len(ch.recipients) :
         \/ ch.recipients[i].type = "string" /\ ch.recipients[i].value = target
         \/ ch.recipients[i].type = "object" /\ ch.recipients[i].id = target

SomeChannelLists(chans, target) == \E i \in 1..Len(chans) : Lists(chans[i], target)

FirstListing(chans, target) ==
    chans[CHOOSE i \in 1..Len(chans) :
            /\ Lists(chans[i], target)
            /\ \A j \in 1..(i - 1) : ~Lists(chans[j], target)]

\* a step that ends a send attempt which passed the validation gate; the
\* call as it was before the step is calls[ev'.c]
SendEnds == ev'.op = "send" /\ ev'.exit # "validation" /\ ev'.c \in Calls

\* the cache grew by exactly one record, placed last, built from call k for
\* channel chanId
AppendedFor(k, chanId) ==
    /\ cache'.isArray /\ cache.isArray
    /\ Len(cache'.items) = Len(cache.items) + 1
    /\ SubSeq(cache'.items, 1, Len(cache.items)) = cache.items
    /\ LET r == cache'.items[Len(cache'.items)]
       IN /\ r.targetUserId = k.target
          /\ r.fromUserId = k.from
          /\ r.content = k.content
          /\ r.embed = k.embed
          /\ r.channelId = chanId

\* the conclusion of C1 for the step that ends call k
C1_Outcome(k) ==
    LET chanId == FirstListing(ev'.chans, k.target).id
    IN /\ ev'.result = "true"
       /\ AppendedFor(k, chanId)
       /\ k.nOpen = 0 /\ ev'.open = "none"
       /\ Len(ev'.recv) = 1 /\ ev'.recv[1].channelId = chanId
       /\ ev'.toasts = <<"sent">>

C2_InvalidIdRejected ==
    [][(/\ ev'.op \in {"send", "send-begin"}
        /\ ev'.via # "none"
        /\ ~MatchesSnowflake(ev'.target) \/ ~MatchesSnowflake(ev'.from))
       => /\ ev'.op = "send" /\ ev'.result = "false"
          /\ ev'.toasts = <<"invalid-id">>
          /\ cache' = cache /\ slot' = slot
          /\ ev'.invoked = <<>>
          /\ calls' = calls
          /\ ev'.open = "none" /\ ev'.recv = <<>>]_vars

C2_Witness ==
    /\ ev.op = "send" /\ ev.exit = "validation"
    /\ MatchesSnowflake(ev.target) /\ ~MatchesSnowflake(ev.from)
    /\ Len(ev.from) = 17
    /\ cacheUpdateCallbacks # <<>> /\ cache.items # <<>>

\* C3: valid ids, no existing channel lists the target and
\* openPrivateChannel rejects: the call returns false, the cache and the
\* slot are unchanged, exactly one failure notification is emitted (the
\* generic one of the outer handler is not added), openPrivateChannel was
\* called exactly once and receiveMessage never.
C3_OpenRejected ==
    [][(SendEnds /\ ev'.open = "reject")
       => /\ MatchesSnowflake(calls[ev'.c].target)
          /\ MatchesSnowflake(calls[ev'.c].from)
          /\ ~SomeChannelLists(ev'.chans, calls[ev'.c].target)
          /\ ev'.result = "false"
          /\ cache' = cache /\ slot' = slot
          /\ Len(ev'.toasts) = 1 /\ ev'.toasts[1] \in FailureToasts
          /\ ev'.toasts[1] # "send-failed"
          /\ calls[ev'.c].nOpen = 1
          /\ ev'.recv = <<>>]_vars

C3_Witness ==
    /\ ev.op = "send" /\ ev.open = "reject" /\ ev.result = "false"
    /\ ev.chans # <<>> /\ cache.items # <<>>

\* C4: when receiveMessage throws after every earlier step succeeded (the
\* storage write included): the call returns false with exactly one generic
\* failure notification and no success notification, and the record built
\* for the attempt is the last one of the in-memory cache and of the
\* persisted slot when the call returns.
C4_InjectionThrows ==
    [][(SendEnds /\ ev'.recvThrew /\ ev'.ioOk)
       => /\ ev'.result = "false"
          /\ ev'.toasts = <<"send-failed">>
          /\ AppendedFor(calls[ev'.c], ev'.recv[1].channelId)
          /\ slot'.kind = "json" /\ slot'.isArray
          /\ Len(slot'.items) = Len(cache'.items)
          /\ JSONparseRecord(slot'.items[Len(slot'.items)])
               = cache'.items[Len(cache'.items)]]_vars

C4_Witness ==
    /\ ev.op = "send" /\ ev.recvThrew /\ ev.ioOk /\ ev.result = "false"
    /\ Len(cache.items) = 2
    /\ cache.items[2].embed.present

\* C5 as stated: a record is put in the cache by the compose flow only after
\* a successful injection: whenever a send has put a record in the cache,
\* the id of that record was handed to receiveMessage by a call that did not
\* throw.
C5_AsStated ==
    (ev.op = "send" /\ ev.mutated)
    => /\ Len(ev.recv) = 1
       /\ ev.recv[1].message.id = cache.items[Len(cache.items)].id
       /\ ~ev.recvThrew

\* C6 as stated: a call whose content is empty or only whitespace after
\* trimming is rejected: it returns false, appends no record and does not
\* call receiveMessage.  (A call that the id check rejects ends in
\* BeginSend and satisfies this by C2; this formula is about the calls that
\* pass the id check.)
C6_AsStated ==
    [][(SendEnds /\ Blank(calls[ev'.c].content))
       => /\ ev'.result = "false"
          /\ cache'.items = cache.items
          /\ ev'.recv = <<>>]_vars

AllBlank(e) ==
    e.present => Blank(e.title) /\ Blank(e.description) /\ Blank(e.imageUrl)

\* C7 as stated: for every successful send, the payload handed to
\* receiveMessage has no embed when the embed argument is absent or all of
\* its fields are empty or whitespace-only, and exactly one rich embed
\* otherwise.
C7_AsStated ==
    [][(SendEnds /\ ev'.result = "true")
       => LET embeds == ev'.recv[1].message.embeds
          IN IF AllBlank(calls[ev'.c].embed)
             THEN embeds = <<>>
             ELSE Len(embeds) = 1 /\ embeds[1].type = "rich"]_vars

\* C8: after a send appended a record, getCachedMessages ends with that
\* record and, when the write did not fail, loadCache run at once on the
\* persisted slot leaves an in-memory sequence equal to the one before the
\* reload (whether or not the read succeeds).
C8_AppendRoundTrip ==
    [][(SendEnds /\ ev'.mutated)
       => /\ AppendedFor(calls[ev'.c], ev'.recv[1].channelId)
          /\ getCachedMessages' # <<>>
          /\ getCachedMessages'[Len(getCachedMessages')].id
               = ev'.recv[1].message.id
          /\ ev'.ioOk
               => \A readOk \in BOOLEAN :
                    loadedCache(cache', slot', readOk) = cache']_vars

C8_Witness ==
    /\ ev.op = "send" /\ ev.mutated /\ ev.ioOk
    /\ Len(cache.items) = 2
    /\ cache.items[2].embed.present
    /\ cache.items[2].embed.description = Undef
    /\ cache.items[2].embed.imageUrl # <<>>
    /\ slot = JSONstringify(cache)

\* C9: whatever the cache held, after clearCache the in-memory cache is
\* empty (getCachedMessages gives the empty sequence), the persisted slot
\* holds the empty sequence when the write did not fail, and one success
\* notification was emitted.
C9_ClearEmpties ==
    ev.op = "clear"
    => /\ cache = EmptyCache
       /\ getCachedMessages = <<>>
       /\ ev.ioOk => slot.kind = "json" /\ slot.isArray /\ slot.items = <<>>
       /\ Len(ev.toasts) = 1 /\ ev.toasts[1] \in SuccessToasts

C9_Witness ==
    /\ ev.op = "clear" /\ ev.dropped = 2 /\ ev.ioOk
    /\ slot.kind = "json" /\ slot.items = <<>>

\* how many times cb occurs in a sequence of callbacks
Count(seq, cb) == Cardinality({i \in 1..Len(seq) : seq[i] = cb})

\* C10 as stated: every cache mutation (load, append of a send, clear)
\* invokes every callback subscribed at that moment exactly once before the
\* operation returns, whether or not the storage access succeeds.
C10_AsStated ==
    ev.mutated
    => \A cb \in Callbacks :
         Count(ev.invoked, cb) = Count(cacheUpdateCallbacks, cb)

\* how many registrations of cb have a closure that was never called
OpenCount(regs, cb) ==
    Cardinality({r \in DOMAIN regs : regs[r].cb = cb /\ ~regs[r].closed})

\* C11 as stated: the closure returned by onCacheUpdate removes exactly the
\* registration it was returned for: at every moment the callbacks
\* subscribed are the registrations whose closure was never called (a second
\* call of a closure changes nothing, the other registrations stay), and a
\* mutation whose notification runs invokes each of them exactly once and
\* no removed one, also when a callback calls its closure during the
\* notification and when one function is registered twice.
C11_AsStated ==
    [][/\ \A cb \in SubsCallbacks :
            Count(cacheUpdateCallbacks', cb) = OpenCount(registrations', cb)
       /\ (ev'.mutated /\ ev'.ioOk /\ ~ev'.threw)
            => \A cb \in SubsCallbacks :
                 Count(ev'.invoked, cb) = OpenCount(registrations, cb)]_vars

\* C12 as stated: after loadCache the in-memory cache equals the stored
\* sequence when the slot holds a well-formed serialized sequence that could
\* be read, and is the empty sequence when the slot is absent, unreadable,
\* malformed or holds something that is not a sequence; loadCache does not
\* raise and every subscriber is notified exactly once.
C12_AsStated ==
    ev.op = "load"
    => /\ IF ev.ioOk /\ slot.kind = "json" /\ slot.isArray
          THEN cache = JSONparse(slot)
          ELSE cache = EmptyCache
       /\ ~ev.threw
       /\ \A cb \in Callbacks :
            Count(ev.invoked, cb) = Count(cacheUpdateCallbacks, cb)

\* C13 as stated: nothing a caller does through the value getCachedMessages
\* returned (adding or removing elements, writing a field of a record or of
\* its embed) changes the internal cache or what the next write persists.
C13_AsStated ==
    [][ev'.op \in {"caller-array", "caller-record", "caller-embed"}
       => cache' = cache /\ slot' = slot]_vars

\* C14 as stated: in every reachable state every record of the cache has an
\* id different from the id of every other record, a targetUserId and a
\* fromUserId that match ^\d{17,19}$ and a non-empty channelId.
C14_AsStated ==
    /\ \A i \in DOMAIN cache.items :
         /\ MatchesSnowflake(cache.items[i].targetUserId)
         /\ MatchesSnowflake(cache.items[i].fromUserId)
         /\ cache.items[i].channelId # ""
    /\ \A i \in DOMAIN cache.items, j \in DOMAIN cache.items :
         i # j => cache.items[i].id # cache.items[j].id

\* C15 as stated: no failure escapes the plugin boundary: no public
\* operation throws or leaves a rejected promise, and a send that settles
\* settles to a boolean.
C15_AsStated ==
    /\ ~ev.threw
    /\ ev.op = "send" => ev.result \in {"true", "false"}

\* C16: a failing storage write neither blocks nor rolls back: a send whose
\* write throws still appends its record, calls receiveMessage once and
\* (receiveMessage not throwing) returns true with the success notification;
\* a clearCache whose write throws still leaves the cache empty; no
\* exception reaches the caller.
C16_WriteFailureKept ==
    [][/\ (SendEnds /\ ~ev'.ioOk /\ ~ev'.recvThrew)
            => /\ AppendedFor(calls[ev'.c], ev'.recv[1].channelId)
               /\ Len(ev'.recv) = 1
               /\ ev'.result = "true"
               /\ ev'.toasts = <<"sent">>
               /\ ~ev'.threw
       /\ (ev'.op = "clear" /\ ~ev'.ioOk)
            => /\ cache' = EmptyCache
               /\ ~ev'.threw]_vars

C16_Witness ==
    /\ ev.op = "send" /\ ~ev.ioOk /\ ev.result = "true"
    /\ Len(cache.items) = 2
    /\ slot = JSONstringify([isArray |-> TRUE, items |-> <<OldRecord>>])

\* C17: every send attempt that settles emits exactly one notification, the
\* success one if and only if it returns true and a failure one if and only
\* if it returns false; within the attempt openPrivateChannel is called at
\* most once and receiveMessage at most once, and the attempt takes no
\* further step after it settled.
C17_OneNotification ==
    [][ev'.op = "send"
       => /\ ev'.result \in {"true", "false"}
          /\ Len(ev'.toasts) = 1
          /\ ev'.result = "true" <=> ev'.toasts[1] = "sent"
          /\ ev'.result = "false" <=> ev'.toasts[1] \in FailureToasts
          /\ calls[ev'.c].nOpen <= 1
          /\ ev'.open # "none" => calls[ev'.c].nOpen = 1
          /\ Len(ev'.recv) <= 1
          /\ calls'[ev'.c] = IdleCall]_vars

C17_Witness ==
    /\ ev.op = "send" /\ ev.exit = "channel" /\ ev.open = "nothing"
    /\ ev.result = "false" /\ ev.toasts = <<"send-failed">>

\* s is a prefix of t
IsPrefix(s, t) == Len(s) <= Len(t) /\ SubSeq(t, 1, Len(s)) = s

C19_AsStated ==
    [][ev'.op \in {"hook-before", "hook-after"}
       => /\ ~ev'.threw
          /\ ev'.result = "unchanged"
          /\ cache' = cache /\ slot' = slot
          /\ cacheUpdateCallbacks' = cacheUpdateCallbacks]_vars

\* C20: appends of overlapping sends are serialized without loss: every
\* step either leaves the cache as it is, or is a clearCache or a load, or
\* is the step at which one call reaches its append and places exactly its
\* own record last, after everything the cache held; a call that returns
\* true has appended; the other call in flight is not disturbed; and after
\* a write that succeeds the slot equals the in-memory sequence.  So with no
\* clearCache or load in between the cache is the prior content followed by
\* one record per call that returned true, in the order of their appends.
C20_AppendsSerialized ==
    [][/\ (SendEnds /\ ev'.mutated)
            => /\ AppendedFor(calls[ev'.c], ev'.recv[1].channelId)
               /\ ev'.ioOk => slot' = JSONstringify(cache')
       /\ (SendEnds /\ ev'.result = "true") => ev'.mutated
       /\ (ev'.op \notin {"clear", "load"} /\ ~(SendEnds /\ ev'.mutated))
            => cache' = cache
       /\ SendEnds => \A d \in Calls \ {ev'.c} : calls'[d] = calls[d]]_vars

\* both calls of an overlap returned true: the call of slot 2 began while
\* the call of slot 1 was suspended, and ends last
C20_Witness ==
    /\ ev.op = "send" /\ ev.c = 2 /\ ev.result = "true" /\ ev.overlap = 0
    /\ Len(cache.items) = 2
    /\ \A i \in 1..2 : cache.items[i].timestamp \in Clock
    /\ cache.items[1].content # cache.items[2].content
    /\ cache.items[1].id # cache.items[2].id
    /\ slot = JSONstringify(cache)

\* a step that ends a send attempt none of whose host steps failed: the
\* modules resolved, a channel was found or opened, getUser and
\* receiveMessage did not throw, and the storage write went through
ResumesWithoutFailure ==
    /\ SendEnds
    /\ ev'.exit \notin {"modules", "open", "user", "channel", "inject"}
    /\ ev'.ioOk

====
